---- MODULE Spec2Model ----
(***************************************************************************)
(* Storage layer of recipe-drawer: the two Storage backends                *)
(* (storage_jsonl.JsonlStorage, storage_sqlite.SqliteStorage).             *)
(*                                                                         *)
(* Representation of Python / SQL values:                                  *)
(*   - a title is a sequence of characters, so that str.strip(),           *)
(*     str.lower() and SQL lower() are computed, not assumed;              *)
(*   - a recipe (a Python dict) is a function whose DOMAIN is the set of   *)
(*     keys present in the dict;                                           *)
(*   - "ingredients" (an insertion-ordered dict str -> str) is a sequence  *)
(*     of <<name, quantity>> pairs with pairwise distinct names;           *)
(*   - "servings" and "source_url" hold tagged scalars (PyNone, PyStr,     *)
(*     PyInt), SQL NULL is PyNone;                                         *)
(*   - a SQLite table is the sequence of its rows in rowid order (id is    *)
(*     INTEGER PRIMARY KEY, a new row gets max(rowid)+1, and a full table  *)
(*     scan visits rows in rowid order); the id column is never read       *)
(*     (_row_to_recipe discards it) and is not represented.                *)
(***************************************************************************)
EXTENDS Integers, Sequences, FiniteSets, TLC

VARIABLES kind, recipes, rows, last, disk, other

vars == <<kind, recipes, rows, last, disk, other>>

\* ---------------------------------------------------------------- bounds
MaxStore == 2
MaxImport == 2
MaxN == 3
MaxGrocery == 2

\* ------------------------------------------------------- scalar values
PyNone == [t |-> "none"]
PyStr(s) == [t |-> "str", v |-> s]
PyInt(i) == [t |-> "int", n |-> i]

\* str(x) for the scalars above
PyStrOf(x) == IF x.t = "int" THEN ToString(x.n) ELSE x.v

\* truth value of a scalar: None and "" are falsy
Truthy(x) == x.t # "none" /\ (x.t = "str" => x.v # "")

\* ---------------------------------------------------------- characters
\* characters are " ", "T", "t", "b" and
\* U+00C9 / U+00E9 : LATIN CAPITAL / SMALL LETTER E WITH ACUTE

\* code point of a character (UTF-8 byte order = code point order)
Code(c) == CASE c = " " -> 32
             [] c = "T" -> 84
             [] c = "b" -> 98
             [] c = "t" -> 116
             [] c = "U+00C9" -> 201
             [] c = "U+00E9" -> 233

IsSpace(c) == c = " "

\* Python str.lower(): Unicode aware
PyLowerChar(c) == CASE c = "T" -> "t"
                    [] c = "U+00C9" -> "U+00E9"
                    [] c = "A" -> "a"
                    [] c = "O" -> "o"
                    [] c = "P" -> "p"
                    [] c = "Q" -> "q"
                    [] c = "S" -> "s"
                    [] OTHER -> c

\* SQLite built-in lower(): ASCII letters only
SqlLowerChar(c) == CASE c = "T" -> "t"
                     [] c = "A" -> "a"
                     [] c = "O" -> "o"
                     [] c = "P" -> "p"
                     [] c = "Q" -> "q"
                     [] c = "S" -> "s"
                     [] OTHER -> c

PyLower(s) == [i \in 1..Len(s) |-> PyLowerChar(s[i])]

SqlLower(s) == [i \in 1..Len(s) |-> SqlLowerChar(s[i])]

\* Python str.strip(): drop leading and trailing whitespace
Strip(s) ==
  LET nonSpace == {i \in 1..Len(s) : ~IsSpace(s[i])}
  IN IF nonSpace = {} THEN <<>>
     ELSE LET lo == CHOOSE i \in nonSpace : \A j \in nonSpace : i <= j
              hi == CHOOSE i \in nonSpace : \A j \in nonSpace : j <= i
          IN SubSeq(s, lo, hi)

\* storage_jsonl._norm_title
NormTitle(t) == PyLower(Strip(t))

\* memcmp order of two TEXT values (BINARY collation), strict
RECURSIVE TextLess(_, _)
TextLess(a, b) ==
  IF b = <<>> THEN FALSE
  ELSE IF a = <<>> THEN TRUE
  ELSE IF Code(Head(a)) # Code(Head(b)) THEN Code(Head(a)) < Code(Head(b))
  ELSE TextLess(Tail(a), Tail(b))

\* ------------------------------------------------------------- JSON text
\* json.dumps of a list of strings, as a token sequence  [ a , b ]
JsonDumpsList(xs) ==
  IF xs = <<>> THEN <<"[", "]">>
  ELSE <<"[">> \o [i \in 1..(2 * Len(xs) - 1) |->
                     IF i % 2 = 1 THEN xs[(i + 1) \div 2] ELSE ","] \o <<"]">>

\* json.loads of such a text
JsonLoadsList(s) == [i \in 1..((Len(s) - 1) \div 2) |-> s[2 * i]]

\* json.dumps of a dict str -> str, as a token sequence  { k : v , k : v }
JsonDumpsDict(d) ==
  IF d = <<>> THEN <<"{", "}">>
  ELSE <<"{">> \o [i \in 1..(4 * Len(d) - 1) |->
                     CASE i % 4 = 1 -> d[(i + 3) \div 4][1]
                       [] i % 4 = 2 -> ":"
                       [] i % 4 = 3 -> d[(i + 1) \div 4][2]
                       [] OTHER -> ","] \o <<"}">>

\* json.loads of such a text
JsonLoadsDict(s) == [i \in 1..(Len(s) \div 4) |-> <<s[4 * i - 2], s[4 * i]>>]

\* -------------------------------------------------------------- recipes
\* dict.setdefault(k, v)
SetDefault(r, k, v) ==
  IF k \in DOMAIN r THEN r
  ELSE [x \in DOMAIN r \cup {k} |-> IF x = k THEN v ELSE r[x]]

\* dict.get(k, default)
DictGet(r, k, default) == IF k \in DOMAIN r THEN r[k] ELSE default

\* the dict {"title": t, **body}
Rec(t, body) ==
  [k \in {"title"} \cup DOMAIN body |-> IF k = "title" THEN t ELSE body[k]]

\* titles handed to the stores
Titles == {<<"T">>, <<" ", "t", " ">>, <<"U+00C9">>}

\* titles asked for
Queries == Titles \cup {<<"t">>, <<"U+00E9">>, <<"b">>}

BodyBare == [k \in {} |-> PyNone]

BodyFull ==
  [ingredients |-> << <<"bread", "2 slices">> >>,
   steps |-> <<"Toast it">>,
   tags |-> <<"breakfast">>,
   servings |-> PyStr("2"),
   source_url |-> PyStr("u")]

BodyPartial ==
  [ingredients |-> << <<"bread", "1 loaf">>, <<"egg", "1">> >>,
   tags |-> <<"breakfast", "quick">>,
   servings |-> PyInt(4),
   source_url |-> PyStr("")]

\* recipe dicts handed to add_recipe / grocery_list
Recipes ==
  {Rec(<<"T">>, BodyFull), Rec(<<"T">>, BodyBare),
   Rec(<<" ", "t", " ">>, BodyFull), Rec(<<" ", "t", " ">>, BodyPartial),
   Rec(<<"U+00C9">>, BodyBare), Rec(<<"U+00C9">>, BodyPartial)}

\* records of an import source
ImportRecords ==
  {Rec(<<"T">>, BodyBare), Rec(<<" ", "t", " ">>, BodyPartial),
   Rec(<<"U+00C9">>, BodyBare)}

\* recipe dicts handed to grocery_list
GroceryRecipes ==
  {Rec(<<"T">>, BodyFull), Rec(<<"T">>, BodyPartial), Rec(<<"T">>, BodyBare),
   Rec(<<"U+00C9">>, BodyFull)}

Range(s) == {s[i] : i \in 1..Len(s)}

\* all sequences over S of length 0..n
SeqsUpTo(S, n) == UNION {[1..k -> S] : k \in 0..n}

\* the first of the matching positions, 0 if there is none
FirstIndex(hits) ==
  IF hits = {} THEN 0 ELSE CHOOSE i \in hits : \A j \in hits : i <= j

\* ---------------------------------------------------------- JsonlStorage
\* get_recipe: first recipe whose normalised title equals the query's
JsonlGetRecipe(rs, title) ==
  LET t == NormTitle(title)
      i == FirstIndex({n \in 1..Len(rs) : NormTitle(rs[n].title) = t})
  IN IF i = 0 THEN PyNone ELSE rs[i]

\* the three setdefault calls of add_recipe
JsonlNormalise(r) ==
  SetDefault(SetDefault(SetDefault(r, "tags", <<>>), "steps", <<>>),
             "ingredients", <<>>)

\* add_recipe: the new list and the outcome
JsonlAddRecipe(rs, r) ==
  IF JsonlGetRecipe(rs, r.title) # PyNone
  THEN [store |-> rs, res |-> "ValueError"]
  ELSE [store |-> Append(rs, JsonlNormalise(r)), res |-> "ok"]

\* delete_recipe: the new list and the returned bool
JsonlDeleteRecipe(rs, title) ==
  LET kept == SelectSeq(rs, LAMBDA r : NormTitle(r.title) # NormTitle(title))
  IN [store |-> kept, res |-> Len(kept) < Len(rs)]

\* import_iter: the new list, the count and the error raised (if any)
RECURSIVE JsonlImportFrom(_, _, _)
JsonlImportFrom(rs, src, c) ==
  IF src = <<>> THEN [store |-> rs, res |-> c, err |-> "none"]
  ELSE IF JsonlGetRecipe(rs, Head(src).title) = PyNone
       THEN LET a == JsonlAddRecipe(rs, Head(src))
            IN IF a.res # "ok" THEN [store |-> a.store, res |-> c, err |-> a.res]
               ELSE JsonlImportFrom(a.store, Tail(src), c + 1)
       ELSE JsonlImportFrom(rs, Tail(src), c)

JsonlImportIter(rs, src) == JsonlImportFrom(rs, src, 0)

\* export_iter
JsonlExportIter(rs) == rs

\* random_recipes: the pool the sample is drawn from
JsonlPool(rs, tag) ==
  IF ~Truthy(tag) THEN rs
  ELSE SelectSeq(rs, LAMBDA r : \E i \in 1..Len(DictGet(r, "tags", <<>>)) :
                                   DictGet(r, "tags", <<>>)[i] = tag.v)

\* a grocery_list that merges lines of the same ingredient name across recipes
RECURSIVE GroceryListMerged(_)
GroceryListMerged(rcps) ==
  IF rcps = <<>> THEN <<>>
  ELSE LET mine == DictGet(Head(rcps), "ingredients", <<>>)
           rest == GroceryListMerged(Tail(rcps))
       IN mine \o SelectSeq(rest, LAMBDA ln :
                     \A k \in 1..Len(mine) : mine[k][1] # ln[1])

\* grocery_list (the same code in both backends)
RECURSIVE GroceryList(_)
GroceryList(rcps) ==
  IF rcps = <<>> THEN <<>>
  ELSE DictGet(Head(rcps), "ingredients", <<>>) \o GroceryList(Tail(rcps))

\* --------------------------------------------------------- SqliteStorage
\* _row_to_recipe
RowToRecipe(row) ==
  LET base == [title |-> row.title,
               steps |-> JsonLoadsList(row.steps_json),
               ingredients |-> JsonLoadsDict(row.ingredients_json),
               tags |-> JsonLoadsList(row.tags_json)]
      withServings == IF row.servings # PyNone
                      THEN SetDefault(base, "servings", row.servings) ELSE base
  IN IF Truthy(row.source_url)
     THEN SetDefault(withServings, "source_url", row.source_url)
     ELSE withServings

\* SELECT * FROM recipes WHERE lower(title)=lower(?), bound to title.strip()
SqliteMatches(row, title) == SqlLower(row.title) = SqlLower(Strip(title))

\* get_recipe: fetchone() of that query
SqliteGetRecipe(tbl, title) ==
  LET i == FirstIndex({n \in 1..Len(tbl) : SqliteMatches(tbl[n], title)})
  IN IF i = 0 THEN PyNone ELSE RowToRecipe(tbl[i])

\* the parameter tuple of the INSERT in add_recipe
SqliteRowOf(r0) ==
  LET r == SetDefault(SetDefault(SetDefault(r0, "tags", <<>>), "steps", <<>>),
                      "ingredients", <<>>)
  IN [title |-> r.title,
      steps_json |-> JsonDumpsList(r.steps),
      ingredients_json |-> JsonDumpsDict(r.ingredients),
      tags_json |-> JsonDumpsList(r.tags),
      servings |-> IF DictGet(r, "servings", PyNone) # PyNone
                   THEN PyStr(PyStrOf(r.servings)) ELSE PyNone,
      source_url |-> DictGet(r, "source_url", PyNone)]

\* DDL: title TEXT UNIQUE NOT NULL (BINARY collation: exact text equality)
UniqueViolation(tbl, title) == \E i \in 1..Len(tbl) : tbl[i].title = title

\* add_recipe: the new table and the outcome
SqliteAddRecipe(tbl, r) ==
  IF UniqueViolation(tbl, r.title)
  THEN [store |-> tbl, res |-> "IntegrityError"]
  ELSE [store |-> Append(tbl, SqliteRowOf(r)), res |-> "ok"]

\* delete_recipe: the new table and rowcount > 0
SqliteDeleteRecipe(tbl, title) ==
  LET kept == SelectSeq(tbl, LAMBDA row : ~SqliteMatches(row, title))
  IN [store |-> kept, res |-> Len(kept) < Len(tbl)]

\* import_iter: the new table, the count and the error raised (if any)
RECURSIVE SqliteImportFrom(_, _, _)
SqliteImportFrom(tbl, src, c) ==
  IF src = <<>> THEN [store |-> tbl, res |-> c, err |-> "none"]
  ELSE IF SqliteGetRecipe(tbl, Head(src).title) = PyNone
       THEN LET a == SqliteAddRecipe(tbl, Head(src))
            IN IF a.res # "ok" THEN [store |-> a.store, res |-> c, err |-> a.res]
               ELSE SqliteImportFrom(a.store, Tail(src), c + 1)
       ELSE SqliteImportFrom(tbl, Tail(src), c)

SqliteImportIter(tbl, src) == SqliteImportFrom(tbl, src, 0)

\* SELECT * FROM recipes ORDER BY title : insertion sort of the rows
RECURSIVE OrderByTitle(_)
OrderByTitle(tbl) ==
  IF tbl = <<>> THEN <<>>
  ELSE LET rest == OrderByTitle(Tail(tbl))
           before == SelectSeq(rest, LAMBDA row : TextLess(row.title, Head(tbl).title))
           after == SelectSeq(rest, LAMBDA row : ~TextLess(row.title, Head(tbl).title))
       IN before \o <<Head(tbl)>> \o after

\* list_recipes
SqliteListRecipes(tbl) ==
  LET sorted == OrderByTitle(tbl)
  IN [i \in 1..Len(sorted) |-> RowToRecipe(sorted[i])]

\* export_iter
SqliteExportIter(tbl) == SqliteListRecipes(tbl)

\* random_recipes: the pool the sample is drawn from
\* (row[4] is tags_json; both branches read every row in rowid order)
SqlitePool(tbl, tag) ==
  IF Truthy(tag)
  THEN LET hit == SelectSeq(tbl, LAMBDA row :
                    \E j \in 1..Len(JsonLoadsList(row.tags_json)) :
                       JsonLoadsList(row.tags_json)[j] = tag.v)
       IN [i \in 1..Len(hit) |-> RowToRecipe(hit[i])]
  ELSE [i \in 1..Len(tbl) |-> RowToRecipe(tbl[i])]

\* ------------------------------------------------------ durable medium
\* json.dumps of a scalar: "text", a number, or null
JsonDumpsScalar(x) ==
  CASE x.t = "str" -> <<"\"", x.v, "\"">>
    [] x.t = "int" -> <<ToString(x.n)>>
    [] OTHER -> <<"null">>

\* json.loads of such a text
JsonLoadsScalar(s) ==
  IF Len(s) = 3 THEN PyStr(s[2])
  ELSE IF s = <<"null">> THEN PyNone
  ELSE PyInt(CHOOSE n \in 0..9 : ToString(n) = s[1])

\* json.dumps(r): one line of the .jsonl file, each key with its JSON text
JsonDumpsRecipe(r) ==
  [k \in DOMAIN r |->
     CASE k = "title" -> <<"\"">> \o r[k] \o <<"\"">>
       [] k = "ingredients" -> JsonDumpsDict(r[k])
       [] k \in {"steps", "tags"} -> JsonDumpsList(r[k])
       [] OTHER -> JsonDumpsScalar(r[k])]

\* json.loads(line)
JsonLoadsRecipe(line) ==
  [k \in DOMAIN line |->
     CASE k = "title" -> SubSeq(line[k], 2, Len(line[k]) - 1)
       [] k = "ingredients" -> JsonLoadsDict(line[k])
       [] k \in {"steps", "tags"} -> JsonLoadsList(line[k])
       [] OTHER -> JsonLoadsScalar(line[k])]

\* a save that leaves out the last in-memory recipe
JsonlSaveAllButLast(rs) ==
  [i \in 1..(Len(rs) - 1) |-> JsonDumpsRecipe(rs[i])]

\* JsonlStorage.save: the file is overwritten with one line per recipe
JsonlSave(rs) == [i \in 1..Len(rs) |-> JsonDumpsRecipe(rs[i])]

\* JsonlStorage.__init__: every non-blank line of the file, if it exists
JsonlOpen(file) ==
  LET lines == SelectSeq(file, LAMBDA line : DOMAIN line # {})
  IN [i \in 1..Len(lines) |-> JsonLoadsRecipe(lines[i])]

\* a file opened in append mode keeps its lines
OpenForAppend(file) == file

\* path.open("w", ...): the file is truncated, whatever it held
OpenForWrite(file) == <<>>

\* SqliteStorage.save: commit, the connection's table becomes the committed one
SqliteSave(tbl) == tbl

\* SqliteStorage.__init__: a new connection sees the committed table
SqliteOpen(db) == db

\* ------------------------------------------------------------------ cli
\* A command-line or CSV field is a sequence of pieces: the separators ",",
\* ":" and "|", the blank " ", and runs of other text. The inputs hold at
\* most one run of other text between two separators.

\* str.split(sep)
RECURSIVE Split(_, _)
Split(field, sep) ==
  LET at == FirstIndex({i \in 1..Len(field) : field[i] = sep})
  IN IF at = 0 THEN <<field>>
     ELSE <<SubSeq(field, 1, at - 1)>>
            \o Split(SubSeq(field, at + 1, Len(field)), sep)

\* str.strip() of a field made of blanks and at most one run of text
StripText(field) == IF Strip(field) = <<>> THEN "" ELSE Strip(field)[1]

\* sep in kv
Contains(field, sep) == \E i \in 1..Len(field) : field[i] = sep

\* kv.split(":", 1)[0].strip() and kv.split(":", 1)[1].strip()
NameQty(kv) ==
  LET at == FirstIndex({i \in 1..Len(kv) : kv[i] = ":"})
  IN <<StripText(SubSeq(kv, 1, at - 1)), StripText(SubSeq(kv, at + 1, Len(kv)))>>

\* d[k] = v on a dict kept as a sequence of pairs in insertion order
DictSet(d, kv) ==
  IF \E i \in 1..Len(d) : d[i][1] = kv[1]
  THEN [i \in 1..Len(d) |-> IF d[i][1] = kv[1] THEN kv ELSE d[i]]
  ELSE Append(d, kv)

\* the dict built by assigning the pairs in order
RECURSIVE DictFrom(_, _)
DictFrom(d, pairs) ==
  IF pairs = <<>> THEN d ELSE DictFrom(DictSet(d, Head(pairs)), Tail(pairs))

\* the dict of the name:qty entries kvs
DictOf(kvs) == DictFrom(<<>>, [i \in 1..Len(kvs) |-> NameQty(kvs[i])])

\* [s.strip() for s in field.split(sep) if s.strip()]
StrippedParts(field, sep) ==
  LET parts == SelectSeq(Split(field, sep), LAMBDA x : Strip(x) # <<>>)
  IN [i \in 1..Len(parts) |-> StripText(parts[i])]

\* iter_csv: the dict comprehension over the ingredients cell
CsvIngredients(cell) ==
  IF cell = <<>> THEN [err |-> "none", map |-> <<>>]
  ELSE [err |-> "none",
        map |-> DictOf(SelectSeq(Split(cell, ","),
                                       LAMBDA kv : Contains(kv, ":")))]

\* the add command: the loop over the chunks of --ingredients
AddIngredients(field) ==
  LET chunks == SelectSeq(Split(field, ","), LAMBDA c : Strip(c) # <<>>)
  IN IF \E i \in 1..Len(chunks) : ~Contains(chunks[i], ":")
     THEN [err |-> "ClickException", map |-> <<>>]
     ELSE [err |-> "none", map |-> DictOf(chunks)]

\* ------------------------------------------- Storage interface dispatch
Kinds == {"jsonl", "sqlite"}

get_recipe(k, st, title) ==
  IF k = "jsonl" THEN JsonlGetRecipe(st, title) ELSE SqliteGetRecipe(st, title)

add_recipe(k, st, r) ==
  IF k = "jsonl" THEN JsonlAddRecipe(st, r) ELSE SqliteAddRecipe(st, r)

delete_recipe(k, st, title) ==
  IF k = "jsonl" THEN JsonlDeleteRecipe(st, title) ELSE SqliteDeleteRecipe(st, title)

import_iter(k, st, src) ==
  IF k = "jsonl" THEN JsonlImportIter(st, src) ELSE SqliteImportIter(st, src)

export_iter(k, st) ==
  IF k = "jsonl" THEN JsonlExportIter(st) ELSE SqliteExportIter(st)

random_pool(k, st, tag) ==
  IF k = "jsonl" THEN JsonlPool(st, tag) ELSE SqlitePool(st, tag)

\* the recipes a store holds, in its native order (list order / rowid order)
Contents(k, st) ==
  IF k = "jsonl" THEN st ELSE [i \in 1..Len(st) |-> RowToRecipe(st[i])]

save(k, medium, st) ==
  IF k = "jsonl" THEN OpenForWrite(medium) \o JsonlSave(st) ELSE SqliteSave(st)

open(k, medium) == IF k = "jsonl" THEN JsonlOpen(medium) ELSE SqliteOpen(medium)

\* --------------------------------------------------------- cli commands
\* json.loads accepts the text of a record: the title is a closed string,
\* lists and dicts are closed
JsonValid(line) ==
  \A k \in DOMAIN line :
    LET text == line[k]
    IN /\ Len(text) >= 1
       /\ k = "title" => Len(text) >= 2 /\ text[1] = "\"" /\ text[Len(text)] = "\""
       /\ k = "ingredients" => text[1] = "{" /\ text[Len(text)] = "}"
       /\ k \in {"steps", "tags"} => text[1] = "[" /\ text[Len(text)] = "]"

\* _coerce_recipe
CoerceRecipe(r0) ==
  LET r == [r0 EXCEPT !.title = Strip(r0.title)]
  IN SetDefault(SetDefault(SetDefault(r, "ingredients", <<>>), "steps", <<>>),
                "tags", <<>>)

\* iter_json: json.load of the whole file, then one recipe per element
IterJson(file) ==
  IF \E i \in 1..Len(file) : ~JsonValid(file[i])
  THEN [recs |-> <<>>, err |-> "JSONDecodeError"]
  ELSE [recs |-> [i \in 1..Len(file) |-> CoerceRecipe(JsonLoadsRecipe(file[i]))],
        err |-> "none"]

\* iter_jsonl: one recipe per non-blank line, up to the first line that
\* json.loads rejects
IterJsonl(file) ==
  LET lines == SelectSeq(file, LAMBDA line : DOMAIN line # {})
      bad == FirstIndex({i \in 1..Len(lines) : ~JsonValid(lines[i])})
      good == IF bad = 0 THEN lines ELSE SubSeq(lines, 1, bad - 1)
  IN [recs |-> [i \in 1..Len(good) |-> CoerceRecipe(JsonLoadsRecipe(good[i]))],
      err |-> IF bad = 0 THEN "none" ELSE "JSONDecodeError"]

\* iter_csv: the required columns, then one recipe per row
IterCsv(file) ==
  IF ~({"title", "ingredients", "steps"} \subseteq file.header)
  THEN [recs |-> <<>>, err |-> "ClickException"]
  ELSE [recs |-> [i \in 1..Len(file.rows) |->
                    [title |-> Strip(file.rows[i].title),
                     ingredients |-> CsvIngredients(file.rows[i].ingredients).map,
                     steps |-> StrippedParts(file.rows[i].steps, "|"),
                     tags |-> IF "tags" \in file.header
                              THEN StrippedParts(file.rows[i].tags, ",")
                              ELSE <<>>]],
        err |-> "none"]

Formats == {"json", "jsonl", "csv"}

IterOf(fmt, file) ==
  CASE fmt = "json" -> IterJson(file)
    [] fmt = "jsonl" -> IterJsonl(file)
    [] OTHER -> IterCsv(file)

\* import_cmd up to store.save(): the generator is consumed by import_iter
\* and raises where the file is bad
ImportRun(k, st, fmt, file) ==
  LET src == IterOf(fmt, file)
      m == import_iter(k, st, src.recs)
  IN [store |-> m.store,
      res |-> IF m.err # "none" THEN m.err
              ELSE IF src.err # "none" THEN src.err ELSE "ok",
      handed |-> src.recs]

\* the samples of init --with-samples
samples ==
  <<[title |-> <<"Q", "u", "i", "c", "k", " ", "P", "a", "n", "c", "a", "k",
                 "e", "s">>,
     ingredients |-> << <<"plain flour", "200 g">>, <<"milk", "250 ml">>,
                        <<"egg", "1">>, <<"baking powder", "1 tsp">>,
                        <<"salt", "pinch">> >>,
     steps |-> <<"Whisk dry", "Add wet and whisk", "Rest 5 min",
                 "Cook on medium until bubbles", "Flip and finish">>,
     tags |-> <<"breakfast", "vegetarian">>],
    [title |-> <<"S", "p", "a", "g", "h", "e", "t", "t", "i", " ", "A", "g",
                 "l", "i", "o", " ", "e", " ", "O", "l", "i", "o">>,
     ingredients |-> << <<"spaghetti", "400 g">>, <<"garlic", "6 cloves">>,
                        <<"olive oil", "80 ml">>,
                        <<"red chilli flakes", "1 tsp">>,
                        <<"parsley", "small bunch">>, <<"salt", "to taste">> >>,
     steps |-> <<"Cook pasta al dente", "Gently sizzle garlic in oil",
                 "Add chilli", "Toss pasta with oil and pasta water",
                 "Finish with parsley and salt">>,
     tags |-> <<"italian", "quick", "vegan">>]>>

\* init_cmd up to store.save()
InitRun(k, st, with_samples) ==
  IF with_samples
  THEN LET m == import_iter(k, st, samples)
       IN [store |-> m.store, res |-> IF m.err # "none" THEN m.err ELSE "ok",
           handed |-> samples]
  ELSE [store |-> st, res |-> "ok", handed |-> <<>>]

\* the add command up to store.save()
AddRun(k, st, title, ingredients, steps, tags) ==
  LET ing == AddIngredients(ingredients)
      recipe == [title |-> Strip(title),
                 ingredients |-> ing.map,
                 steps |-> StrippedParts(steps, "|"),
                 tags |-> StrippedParts(tags, ",")]
  IN IF ing.err # "none"
     THEN [store |-> st, res |-> ing.err, handed |-> <<>>]
     ELSE IF get_recipe(k, st, recipe.title) # PyNone
     THEN [store |-> st, res |-> "ClickException", handed |-> <<>>]
     ELSE LET a == add_recipe(k, st, recipe)
          IN [store |-> a.store, res |-> a.res, handed |-> <<recipe>>]

\* migrate_from_orm: the loop over the ORM rows, up to store.save()
RECURSIVE MigrateFrom(_, _, _, _)
MigrateFrom(k, st, orm, handed) ==
  IF orm = <<>> THEN [store |-> st, res |-> "ok", handed |-> handed]
  ELSE LET row == Head(orm)
           title == Strip(DictGet(row, "title", <<>>))
           named == SelectSeq(DictGet(row, "ingredients", <<>>),
                              LAMBDA item : StripText(item.name) # "")
           r == [title |-> title,
                 ingredients |->
                   DictFrom(<<>>, [i \in 1..Len(named) |->
                                     <<StripText(named[i].name),
                                       StripText(named[i].quantity)>>]),
                 steps |-> DictGet(row, "steps", <<>>),
                 tags |-> DictGet(row, "tags", <<>>)]
       IN IF title = <<>> THEN MigrateFrom(k, st, Tail(orm), handed)
          ELSE IF get_recipe(k, st, title) # PyNone
          THEN MigrateFrom(k, st, Tail(orm), handed)
          ELSE LET a == add_recipe(k, st, r)
               IN IF a.res # "ok"
                  THEN [store |-> a.store, res |-> a.res,
                        handed |-> Append(handed, r)]
                  ELSE MigrateFrom(k, a.store, Tail(orm), Append(handed, r))

MigrateRun(k, st, orm) == MigrateFrom(k, st, orm, <<>>)

\* the working set of the store under test
Store == IF kind = "jsonl" THEN recipes ELSE rows

SetStore(st) ==
  IF kind = "jsonl" THEN recipes' = st /\ UNCHANGED <<kind, rows, disk, other>>
  ELSE rows' = st /\ UNCHANGED <<kind, recipes, disk, other>>

\* arguments of random_recipes
TagArgs == {PyNone, PyStr(""), PyStr("breakfast"), PyStr("quick")}

\* a sample drawn with replacement
SamplesWithReplacement(pool, k) == [1..k -> 1..Len(pool)]

\* random.sample(pool, k): k distinct positions of the pool, in any order
Samples(pool, k) ==
  {pick \in [1..k -> 1..Len(pool)] :
     \A i, j \in 1..k : i # j => pick[i] # pick[j]}

Min(a, b) == IF a < b THEN a ELSE b

\* ------------------------------------------------------------ behaviour
Init ==
  /\ kind \in Kinds
  /\ recipes = <<>>
  /\ rows = <<>>
  /\ last = [op |-> "open"]
  /\ disk = <<>>
  /\ other = <<>>

\* add_recipe called with a recipe of R
AddRecipeOf(R) ==
  \E r \in R :
    \E a \in {add_recipe(kind, Store, r)} :
       /\ Len(a.store) <= MaxStore
       /\ SetStore(a.store)
       /\ last' = [op |-> "add", arg |-> r, res |-> a.res, pre |-> Store]

AddRecipe == AddRecipeOf(Recipes)

GetRecipe ==
  \E q \in Queries :
    /\ last' = [op |-> "get", arg |-> q, res |-> get_recipe(kind, Store, q),
                pre |-> Store,
                added |-> IF last.op = "add" /\ last.res = "ok" /\ last.arg.title = q
                          THEN [r |-> last.arg, pre |-> last.pre] ELSE PyNone,
                deleted |-> last.op = "delete" /\ last.res /\ last.arg = q]
    /\ UNCHANGED <<kind, recipes, rows, disk, other>>

\* delete_recipe called with a title of Q
DeleteRecipeOf(Q) ==
  \E q \in Q :
    \E d \in {delete_recipe(kind, Store, q)} :
       /\ SetStore(d.store)
       /\ last' = [op |-> "delete", arg |-> q, res |-> d.res, pre |-> Store]

DeleteRecipe == DeleteRecipeOf(Queries)

RandomRecipes ==
  \E n \in 0..MaxN, tag \in TagArgs :
    \E pool \in {random_pool(kind, Store, tag)} :
       /\ IF pool = <<>>
          THEN last' = [op |-> "random", n |-> n, tag |-> tag, res |-> <<>>,
                        pre |-> Store]
          ELSE \E pick \in Samples(pool, Min(n, Len(pool))) :
                 last' = [op |-> "random", n |-> n, tag |-> tag,
                          res |-> [i \in 1..Min(n, Len(pool)) |-> pool[pick[i]]],
                          pre |-> Store]
       /\ UNCHANGED <<kind, recipes, rows, disk, other>>

Grocery ==
  \E rcps \in SeqsUpTo(GroceryRecipes, MaxGrocery) :
    /\ last' = [op |-> "grocery", arg |-> rcps, res |-> GroceryList(rcps),
                pre |-> Store]
    /\ UNCHANGED <<kind, recipes, rows, disk, other>>

\* import_iter called with a sequence of Srcs
ImportIterOf(Srcs) ==
  \E src \in Srcs :
    \E m \in {import_iter(kind, Store, src)} :
       /\ Len(m.store) <= MaxStore
       /\ SetStore(m.store)
       /\ last' = [op |-> "import", arg |-> src, res |-> m.res, err |-> m.err,
                   pre |-> Store,
                   rerun |-> last.op = "import" /\ last.arg = src]

ImportIter == ImportIterOf(SeqsUpTo(ImportRecords, MaxImport))

\* export_iter() of the store piped into import_iter() of a fresh empty store
ExportIntoFresh ==
  \E fk \in Kinds :
    \E m \in {import_iter(fk, <<>>, export_iter(kind, Store))} :
       /\ last' = [op |-> "roundtrip", fresh_kind |-> fk, res |-> m.res,
                   err |-> m.err, fresh |-> m.store, pre |-> Store]
       /\ UNCHANGED <<kind, recipes, rows, disk, other>>

\* save(): the working set is written to the durable medium
Save ==
  /\ disk' = save(kind, disk, Store)
  /\ last' = [op |-> "save", pre_disk |-> disk]
  /\ UNCHANGED <<kind, recipes, rows, other>>

\* a new store is opened on the same path; the old instance is dropped
Reopen ==
  /\ SetStore(open(kind, disk))
  /\ last' = [op |-> "reopen", after_save |-> last.op = "save", dropped |-> Store]

\* add_recipe, get_recipe, delete_recipe, import_iter and the export/import
\* round trip on one store
Next ==
  \/ AddRecipe
  \/ GetRecipe
  \/ DeleteRecipe
  \/ ImportIter
  \/ ExportIntoFresh

Spec == Init /\ [][Next]_vars

\* random_recipes on the stores add_recipe and delete_recipe build
NextRandom ==
  \/ AddRecipe
  \/ DeleteRecipe
  \/ RandomRecipes

SpecRandom == Init /\ [][NextRandom]_vars

\* grocery_list on the stores add_recipe builds
NextGrocery ==
  \/ AddRecipe
  \/ Grocery

SpecGrocery == Init /\ [][NextGrocery]_vars

\* recipes with arbitrary titles, the empty and the whitespace-only included
AnyTitleRecipes ==
  {Rec(<<>>, BodyBare), Rec(<<" ">>, BodyBare), Rec(<<"T">>, BodyBare),
   Rec(<<" ", "t", " ">>, BodyPartial)}

\* add_recipe and import_iter with arbitrary titles
NextAnyTitle ==
  \/ AddRecipeOf(AnyTitleRecipes)
  \/ ImportIterOf(SeqsUpTo(AnyTitleRecipes, MaxImport))

SpecAnyTitle == Init /\ [][NextAnyTitle]_vars

\* open, add_recipe, delete_recipe, import_iter and save on one path
NextDurable ==
  \/ AddRecipeOf(ImportRecords)
  \/ DeleteRecipeOf(Titles)
  \/ ImportIterOf(SeqsUpTo(ImportRecords, MaxImport))
  \/ Save
  \/ Reopen

SpecDurable == Init /\ [][NextDurable]_vars

\* two JsonlStorage instances on one file: A works on recipes, B on other
Writers == {"A", "B"}

Mem(w) == IF w = "A" THEN recipes ELSE other

SetMem(w, st) ==
  IF w = "A" THEN recipes' = st /\ UNCHANGED <<kind, rows, other>>
  ELSE other' = st /\ UNCHANGED <<kind, rows, recipes>>

\* the file either does not exist yet or holds one recipe; A and B open it
InitTwoWriters ==
  /\ kind = "jsonl"
  /\ rows = <<>>
  /\ disk \in {<<>>, JsonlSave(<<JsonlNormalise(Rec(<<"b">>, BodyFull))>>)}
  /\ recipes = JsonlOpen(disk)
  /\ other = JsonlOpen(disk)
  /\ last = [op |-> "open", saver |-> "none"]

\* writer w calls add_recipe
WriterAdd(w) ==
  \E r \in ImportRecords :
    \E a \in {JsonlAddRecipe(Mem(w), r)} :
       /\ Len(a.store) <= MaxStore
       /\ SetMem(w, a.store)
       /\ disk' = disk
       /\ last' = [op |-> "add", by |-> w, res |-> a.res, saver |-> last.saver]

\* writer w calls delete_recipe
WriterDelete(w) ==
  \E t \in Titles \cup {<<"b">>} :
    \E d \in {JsonlDeleteRecipe(Mem(w), t)} :
       /\ SetMem(w, d.store)
       /\ disk' = disk
       /\ last' = [op |-> "delete", by |-> w, res |-> d.res,
                   saver |-> last.saver]

\* writer w calls save; saver is the writer of the latest save, prev the
\* writer of the save before it
WriterSave(w) ==
  /\ disk' = save("jsonl", disk, Mem(w))
  /\ last' = [op |-> "save", by |-> w, res |-> "ok",
              saver |-> w, prev |-> last.saver]
  /\ UNCHANGED <<kind, recipes, rows, other>>

NextTwoWriters ==
  \E w \in Writers : WriterAdd(w) \/ WriterDelete(w) \/ WriterSave(w)

SpecTwoWriters == InitTwoWriters /\ [][NextTwoWriters]_vars

\* a JsonlStorage (recipes) and a SqliteStorage (rows), both empty, receive
\* the same calls
InitLockStep ==
  /\ kind = "both"
  /\ recipes = <<>>
  /\ rows = <<>>
  /\ disk = <<>>
  /\ other = <<>>
  /\ last = [op |-> "open"]

\* what the caller sees of add_recipe: success or the duplicate-title failure
AddOutcome(res) ==
  IF res \in {"ValueError", "IntegrityError"} THEN "duplicate" ELSE res

BothAdd ==
  \E r \in ImportRecords :
    \E j \in {JsonlAddRecipe(recipes, r)}, q \in {SqliteAddRecipe(rows, r)} :
       /\ Len(j.store) <= MaxStore /\ Len(q.store) <= MaxStore
       /\ recipes' = j.store
       /\ rows' = q.store
       /\ last' = [op |-> "add", arg |-> r, jsonl |-> AddOutcome(j.res),
                   sqlite |-> AddOutcome(q.res)]
       /\ UNCHANGED <<kind, disk, other>>

BothGet ==
  \E t \in Queries :
    /\ last' = [op |-> "get", arg |-> t, jsonl |-> JsonlGetRecipe(recipes, t),
                sqlite |-> SqliteGetRecipe(rows, t)]
    /\ UNCHANGED <<kind, recipes, rows, disk, other>>

BothDelete ==
  \E t \in Queries :
    \E j \in {JsonlDeleteRecipe(recipes, t)}, q \in {SqliteDeleteRecipe(rows, t)} :
       /\ recipes' = j.store
       /\ rows' = q.store
       /\ last' = [op |-> "delete", arg |-> t, jsonl |-> j.res, sqlite |-> q.res]
       /\ UNCHANGED <<kind, disk, other>>

BothImport ==
  \E src \in SeqsUpTo(ImportRecords, MaxImport) :
    \E j \in {JsonlImportIter(recipes, src)}, q \in {SqliteImportIter(rows, src)} :
       /\ Len(j.store) <= MaxStore /\ Len(q.store) <= MaxStore
       /\ recipes' = j.store
       /\ rows' = q.store
       /\ last' = [op |-> "import", arg |-> src,
                   jsonl |-> [count |-> j.res, err |-> AddOutcome(j.err)],
                   sqlite |-> [count |-> q.res, err |-> AddOutcome(q.err)]]
       /\ UNCHANGED <<kind, disk, other>>

\* export_iter: the exported recipes, compared as a set
BothExport ==
  /\ last' = [op |-> "export", jsonl |-> Range(JsonlExportIter(recipes)),
              sqlite |-> Range(SqliteExportIter(rows))]
  /\ UNCHANGED <<kind, recipes, rows, disk, other>>

NextLockStep == BothAdd \/ BothGet \/ BothDelete \/ BothImport \/ BothExport

SpecLockStep == InitLockStep /\ [][NextLockStep]_vars

\* --title values of the add and delete commands
CliTitles == {<<" ", "t", " ">>, <<"U+00C9">>, <<"U+00E9">>}

\* --ingredients values of the add command; the second has a chunk without ":"
CliIngredients ==
  {<<" ", "bread", " ", ":", "2 slices", ",", "egg", ":", "1", ",", " ">>,
   <<"bread 2 slices">>}

\* lines of a .jsonl import file, elements of a .json one
LineT == JsonDumpsRecipe(Rec(<<"T">>, BodyBare))

LineE == JsonDumpsRecipe(Rec(<<" ", "U+00E9">>, BodyPartial))

\* a record whose title string is not closed
BadLine == [title |-> <<"\"", "T">>]

BlankLine == <<>>

\* rows of a .csv import file; RowE has an ingredient entry without ":"
RowT ==
  [title |-> <<"T", " ">>, ingredients |-> <<"bread", ":", "2 slices">>,
   steps |-> <<"Toast it", "|", " ", "|", "Serve">>,
   tags |-> <<"quick", ",", " ">>]

RowE ==
  [title |-> <<"U+00C9">>,
   ingredients |-> <<"egg", ":", "1", ",", "bread 2 slices">>,
   steps |-> <<"Toast it">>, tags |-> <<>>]

\* the import files of a format
ImportFiles(fmt) ==
  CASE fmt = "json" -> {<<LineT, LineE>>, <<LineE, BadLine>>}
    [] fmt = "jsonl" -> {<<LineT, BlankLine, LineE>>, <<LineE, BadLine, LineT>>,
                         <<BadLine>>}
    [] OTHER -> {[header |-> {"title", "ingredients", "steps", "tags"},
                  rows |-> <<RowT, RowE>>],
                 [header |-> {"title", "ingredients", "steps"},
                  rows |-> <<RowT>>],
                 [header |-> {"title", "steps", "tags"}, rows |-> <<RowT>>]}

\* ORM databases read by migrate-from-orm
OrmDatabases ==
  {<<[steps |-> <<"Toast it">>],
     [title |-> <<" ", "T">>,
      ingredients |-> <<[name |-> <<"bread", " ">>, quantity |-> <<"2 slices">>],
                        [name |-> <<" ">>, quantity |-> <<"1">>]>>,
      tags |-> <<"breakfast">>],
     [title |-> <<" ">>]>>,
   <<[title |-> <<"U+00E9">>, steps |-> <<"Toast it">>]>>}

\* one run of the program: the group callback opens the store on the path,
\* the command acts on it and, if nothing was raised, saves; the working set
\* left in recipes / rows is the one the process ends with
CliRun(op, arg, run, saves) ==
  /\ Len(run.store) <= MaxStore
  /\ IF kind = "jsonl" THEN recipes' = run.store /\ rows' = rows
     ELSE rows' = run.store /\ recipes' = recipes
  /\ disk' = IF saves THEN save(kind, disk, run.store) ELSE disk
  /\ last' = [op |-> op, arg |-> arg, res |-> run.res, handed |-> run.handed,
              pre_disk |-> disk]
  /\ UNCHANGED <<kind, other>>

CliInit ==
  \E with_samples \in BOOLEAN :
    \E run \in {InitRun(kind, open(kind, disk), with_samples)} :
       CliRun("init", [with_samples |-> with_samples], run, run.res = "ok")

CliAdd ==
  \E title \in CliTitles, ingredients \in CliIngredients :
    \E run \in {AddRun(kind, open(kind, disk), title, ingredients,
                        <<"Toast it", "|", " ", "|", "Serve">>, <<>>)} :
       CliRun("add", [title |-> title, ingredients |-> ingredients], run,
              run.res = "ok")

CliDelete ==
  \E title \in CliTitles :
    \E d \in {delete_recipe(kind, open(kind, disk), title)} :
       CliRun("delete", [title |-> title],
              [store |-> d.store, res |-> "ok", handed |-> <<>>], d.res)

CliImport ==
  \E fmt \in Formats :
    \E file \in ImportFiles(fmt) :
      \E run \in {ImportRun(kind, open(kind, disk), fmt, file)} :
         CliRun("import", [fmt |-> fmt, file |-> file], run, run.res = "ok")

CliMigrate ==
  \E orm \in OrmDatabases :
    \E run \in {MigrateRun(kind, open(kind, disk), orm)} :
       CliRun("migrate", [orm |-> orm], run, run.res = "ok")

NextCli == CliInit \/ CliAdd \/ CliDelete \/ CliImport \/ CliMigrate

SpecCli == Init /\ [][NextCli]_vars

\* ===================================================================
\* Properties
\* ===================================================================
\* "equal after trimming whitespace and lower-casing"
SameTitle(a, b) == PyLower(Strip(a)) = PyLower(Strip(b))

\* some recipe of the list held carries a title equal to t in that sense
Holds(held, t) == \E i \in 1..Len(held) : SameTitle(held[i].title, t)

Held == Contents(kind, Store)

HeldBefore == Contents(kind, last.pre)

\* C1: on both backends no two recipes in the store have titles that are
\* equal after trimming whitespace and lower-casing.
C1_UniqueTitles ==
  \A i, j \in 1..Len(Held) :
    i # j => ~SameTitle(Held[i].title, Held[j].title)

\* C2: add_recipe with a title equal (trimmed, lower-cased) to a stored title
\* fails with a duplicate-title error and leaves the store exactly as it was.
C2_DuplicateAddRejected ==
  (last.op = "add" /\ Holds(HeldBefore, last.arg.title))
    => /\ last.res \in {"ValueError", "IntegrityError"}
       /\ Store = last.pre

\* the recipe get_recipe must return after add_recipe(r): r with the missing
\* ingredients / steps / tags as empty containers
EqualUpToDefaults(got, r) ==
  /\ got # PyNone
  /\ got.title = r.title
  /\ "ingredients" \in DOMAIN got /\ got.ingredients = DictGet(r, "ingredients", <<>>)
  /\ "steps" \in DOMAIN got /\ got.steps = DictGet(r, "steps", <<>>)
  /\ "tags" \in DOMAIN got /\ got.tags = DictGet(r, "tags", <<>>)
  /\ ("servings" \in DOMAIN got) = ("servings" \in DOMAIN r)
  /\ "servings" \in DOMAIN r => got.servings = r.servings
  /\ ("source_url" \in DOMAIN got) = ("source_url" \in DOMAIN r)
  /\ "source_url" \in DOMAIN r => got.source_url = r.source_url

\* C3: for a recipe r whose title is not yet in the store, add_recipe(r)
\* followed by get_recipe(r.title) returns r up to the empty-container defaults.
C3_AddThenGet ==
  (/\ last.op = "get"
   /\ last.added # PyNone
   /\ ~Holds(Contents(kind, last.added.pre), last.arg))
    => EqualUpToDefaults(last.res, last.added.r)

\* C4: get_recipe(q) returns the stored recipe whose title equals q after
\* trimming and lower-casing, and None when no stored title does.
C4_GetFindsMatch ==
  last.op = "get"
    => /\ \A i \in 1..Len(Held) :
            SameTitle(Held[i].title, last.arg) => last.res = Held[i]
       /\ ~Holds(Held, last.arg) => last.res = PyNone

\* C5: delete_recipe(t) with no matching stored title returns false and leaves
\* the store unchanged; with a matching title it returns true, every recipe not
\* matching t stays as it was, and a following get_recipe(t) returns None.
C5_DeleteFrame ==
  /\ last.op = "delete"
       => IF Holds(HeldBefore, last.arg)
          THEN /\ last.res = TRUE
               /\ Held = SelectSeq(HeldBefore,
                                   LAMBDA r : ~SameTitle(r.title, last.arg))
          ELSE /\ last.res = FALSE
               /\ Store = last.pre
  /\ (last.op = "get" /\ last.deleted) => last.res = PyNone

\* C6: import_iter run again on the same sequence returns 0, raises nothing
\* and leaves the store as the first run left it.
C6_ImportIdempotent ==
  (last.op = "import" /\ last.rerun)
    => /\ last.err = "none"
       /\ last.res = 0
       /\ Store = last.pre

\* C7: import_iter adds a record only if no recipe already held (earlier
\* additions of the same call included) shares its title; a record whose title
\* is present is skipped and the stored recipe keeps its field values; the
\* returned integer is the number of recipes by which the store grew.
C7_ImportSkipsExisting ==
  last.op = "import"
    => /\ last.err = "none"
       /\ Len(HeldBefore) <= Len(Held)
       /\ SubSeq(Held, 1, Len(HeldBefore)) = HeldBefore
       /\ last.res = Len(Held) - Len(HeldBefore)
       /\ \A k \in (Len(HeldBefore) + 1)..Len(Held) :
            /\ \A i \in 1..(k - 1) : ~SameTitle(Held[i].title, Held[k].title)
            /\ \E j \in 1..Len(last.arg) : last.arg[j].title = Held[k].title
       /\ \A j \in 1..Len(last.arg) : Holds(Held, last.arg[j].title)

\* C10: export_iter() of a store piped into import_iter() of a fresh empty
\* store returns the number of recipes exported and the fresh store then holds
\* the same set of recipes, field for field.
C10_ExportImportRoundTrip ==
  last.op = "roundtrip"
    => /\ last.err = "none"
       /\ last.res = Len(Held)
       /\ Range(Contents(last.fresh_kind, last.fresh)) = Range(Held)

\* the held recipes whose tags contain tag
TaggedWith(held, tag) ==
  SelectSeq(held, LAMBDA r : \E i \in 1..Len(r.tags) : r.tags[i] = tag)

\* the result of the last random_recipes call is a sample of pool
IsSampleOf(pool) ==
  /\ Len(last.res) = Min(last.n, Len(pool))
  /\ \A i, j \in 1..Len(last.res) : i # j => last.res[i] # last.res[j]
  /\ \A i \in 1..Len(last.res) : last.res[i] \in Range(pool)
  /\ pool = <<>> => last.res = <<>>
  /\ (pool = Held /\ last.n > Len(Held))
       => /\ Range(last.res) = Range(Held)
          /\ Len(last.res) = Len(Held)

\* C8 as stated: random_recipes(n, tag) returns min(n, |pool|) pairwise distinct
\* members of the pool, the pool being the whole store when no tag is given and
\* otherwise the recipes whose tags contain the tag.
C8_AsStated ==
  last.op = "random"
    => IsSampleOf(IF last.tag = PyNone THEN Held
                  ELSE TaggedWith(Held, last.tag.v))

\* C8: random_recipes(n, tag) returns min(n, |pool|) pairwise distinct members
\* of the pool, the pool being the whole store when the tag is None or the
\* empty string and otherwise the recipes whose tags contain the tag; with n
\* above the store size and no tag every recipe is returned exactly once, and
\* an empty pool gives the empty sequence.
C8_RandomSample ==
  last.op = "random"
    => IsSampleOf(IF last.tag \in {PyNone, PyStr("")} THEN Held
                  ELSE TaggedWith(Held, last.tag.v))

\* random_recipes(3) on a store of two recipes returned both of them
C8_Witness ==
  /\ last.op = "random"
  /\ last.tag = PyNone
  /\ Len(Held) = 2
  /\ last.n > Len(Held)
  /\ Len(last.res) = 2

\* number of ingredients of the recipes before position i
RECURSIVE LinesBefore(_, _)
LinesBefore(rcps, i) ==
  IF i <= 1 THEN 0
  ELSE LinesBefore(rcps, i - 1) + Len(DictGet(rcps[i - 1], "ingredients", <<>>))

\* C9: grocery_list returns, in input recipe order, each recipe's (name,
\* quantity) pairs in that recipe's own order; the number of lines is the sum
\* of the ingredient counts (no merging of equal names); the store is unchanged.
C9_GroceryConcat ==
  last.op = "grocery"
    => /\ Len(last.res) = LinesBefore(last.arg, Len(last.arg) + 1)
       /\ \A i \in 1..Len(last.arg) :
            \A j \in 1..Len(DictGet(last.arg[i], "ingredients", <<>>)) :
              last.res[LinesBefore(last.arg, i) + j] = last.arg[i].ingredients[j]
       /\ Store = last.pre

\* two recipes that both list "bread" gave three lines, on a non-empty store
C9_Witness ==
  /\ last.op = "grocery"
  /\ Len(last.arg) = 2
  /\ \A i \in 1..2 : \E j \in 1..Len(DictGet(last.arg[i], "ingredients", <<>>)) :
       last.arg[i].ingredients[j][1] = "bread"
  /\ Len(last.res) = 3
  /\ last.res[1][1] = last.res[2][1]
  /\ Store # <<>>

\* C11: after add_recipe and import_iter calls with arbitrary titles every
\* recipe in the store has a non-empty title.
C11_NonEmptyTitles ==
  \A i \in 1..Len(Held) : Held[i].title # <<>>

\* the recipes a store newly opened on the medium holds
Durable(medium) == Contents(kind, open(kind, medium))

\* C12: add_recipe, delete_recipe and import_iter leave the durable medium as
\* it is; save makes it hold every recipe of the working set, in the working
\* set's order; a store opened on the path holds exactly the durable recipes.
\* Hence the medium always holds the working set of the most recent save.
C12_DurableOnlyBySave ==
  [][/\ last'.op \in {"add", "delete", "import"} => disk' = disk
     /\ last'.op = "save"
          => /\ Durable(disk') = Held
             /\ Store' = Store
     /\ last'.op = "reopen"
          => /\ disk' = disk
             /\ Contents(kind, Store') = Durable(disk)]_vars

\* a store was reopened after a save and a later unsaved add_recipe: it holds
\* the saved recipes, the unsaved one is gone
C12_Witness ==
  /\ last.op = "reopen"
  /\ Len(Held) >= 1
  /\ Len(Contents(kind, last.dropped)) > Len(Held)
  /\ Durable(disk) = Held

\* the recipes of rs that no recipe of the other list equals
OnlyIn(rs, others) == Range(rs) \ Range(others)

\* C15: with two JsonlStorage instances on one file, after a save the file
\* holds exactly the saver's in-memory recipes, in order; every recipe that
\* only the other instance holds is absent from it, so the file is a merge of
\* the two working sets only when the other adds nothing; the save raises
\* nothing.
C15_LastSaveWins ==
  last.op = "save"
    => LET w == last.by
           o == CHOOSE x \in Writers : x # w
           file == JsonlOpen(disk)
       IN /\ last.res = "ok"
          /\ file = Mem(w)
          /\ OnlyIn(Mem(o), Mem(w)) \cap Range(file) = {}
          /\ OnlyIn(Mem(o), Mem(w)) # {}
               => Range(file) # Range(Mem(w)) \cup Range(Mem(o))

\* both instances have saved, the later save just happened, and the earlier
\* saver holds a recipe it added that the later saver does not hold
C15_Witness ==
  /\ last.op = "save"
  /\ last.prev \in Writers \ {last.by}
  /\ LET o == CHOOSE x \in Writers : x # last.by
     IN \E r \in OnlyIn(Mem(o), Mem(last.by)) : r.title # <<"b">>

\* C14: when a JsonlStorage and a SqliteStorage that start empty receive the
\* same get_recipe, add_recipe, delete_recipe, import_iter and export_iter
\* calls, each call has the same outcome on both and after each call both hold
\* the same set of recipes, field for field.
C14_LockStep ==
  last.op # "open"
    => /\ last.jsonl = last.sqlite
       /\ Range(recipes) = Range(Contents("sqlite", rows))

\* the file of an import command has a malformed record: a line or element
\* that is not valid JSON, a missing required CSV column, or an entry without
\* ":" in a CSV ingredient cell
Malformed(fmt, file) ==
  IF fmt \in {"json", "jsonl"}
  THEN \E i \in 1..Len(file) : file[i] # BlankLine /\ ~JsonValid(file[i])
  ELSE \/ ~({"title", "ingredients", "steps"} \subseteq file.header)
       \/ \E i \in 1..Len(file.rows) :
            LET entries == Split(file.rows[i].ingredients, ",")
            IN /\ file.rows[i].ingredients # <<>>
               /\ \E j \in 1..Len(entries) : ~Contains(entries[j], ":")

\* C13: an import command whose file has a malformed record fails with an
\* error and leaves the durable store as it was before the command.
C13_MalformedImportAborts ==
  (last.op = "import" /\ Malformed(last.arg.fmt, last.arg.file))
    => /\ last.res # "ok"
       /\ disk = last.pre_disk

\* C16: every title a CLI command hands to add_recipe or import_iter is
\* trimmed; a store populated only through CLI commands holds no two recipes
\* whose titles are equal after trimming and lower-casing, in the process and
\* on the durable medium; no CLI command ends with a backend uniqueness error.
C16_CliKeepsTitlesUnique ==
  /\ last.op # "open"
       => /\ \A i \in 1..Len(last.handed) :
               Strip(last.handed[i].title) = last.handed[i].title
          /\ last.res \notin {"ValueError", "IntegrityError"}
  /\ \A i, j \in 1..Len(Held) : i # j => ~SameTitle(Held[i].title, Held[j].title)
  /\ \A i, j \in 1..Len(Durable(disk)) :
       i # j => ~SameTitle(Durable(disk)[i].title, Durable(disk)[j].title)

====
